---- MODULE Spec2Model ----
(***************************************************************************)
(* Document reference / file store reconciliation of the insurance         *)
(* brokerage backend: the clients table (document slots holding stored     *)
(* paths), the uploads/documents tree on disk, and the handlers that       *)
(* upload, promote, scan and repair.                                       *)
(*                                                                         *)
(* Paths are strings, exactly as the code stores them; the string tests of *)
(* the code (startsWith, includes, the regular expressions, path.basename, *)
(* path.dirname) are computed on the characters.                           *)
(***************************************************************************)
EXTENDS Naturals, Integers, Sequences, FiniteSets, TLC

VARIABLES clients, newer, others, dirs, files, res, nOps, selected

vars == <<clients, newer, others, dirs, files, res, nOps, selected>>

(***************************************************************************)
(* Bounds of the model.                                                    *)
(***************************************************************************)
\* number of handler invocations explored after start-up
MaxOps == 2

\* client ids as Client.create generates them ("C" + 8 hex characters, shortened)
ClientIds == {"C1", "C2"}

\* staging ids as `temp-${uuidv4()}` generates them (hex characters and dashes)
TempIds == {"temp-a1", "temp-b2"}

\* an id sent in the body of the create request, of the shape of a staging id
SuppliedIds == {"temp-c3"}

\* the body of the create request carries no id
NoId == ""

\* the order in which SELECT * FROM clients returns the rows
ClientOrder == <<"C1", "C2", "temp-c3">>

\* two of the ten document fields, in the order of the documentFields arrays
documentFields == <<"nic_proof", "dob_proof">>

Slots == {documentFields[i] : i \in 1..Len(documentFields)}

\* the uuid part of a generated file name
Tokens == {"1", "2", "3"}

\* a document field holding no path (SQL NULL)
NULL == "NULL"

(***************************************************************************)
(* String functions of JavaScript and of node's path module.               *)
(***************************************************************************)
startsWith(s, p) == Len(s) >= Len(p) /\ SubSeq(s, 1, Len(p)) = p

endsWith(s, p) == Len(s) >= Len(p) /\ SubSeq(s, Len(s) - Len(p) + 1, Len(s)) = p

includes(s, p) ==
    \E i \in 1..Len(s) : i + Len(p) - 1 <= Len(s) /\ SubSeq(s, i, i + Len(p) - 1) = p

\* index of the last "/" of s, 0 when there is none
lastSlash(s) ==
    LET I == {i \in 1..Len(s) : SubSeq(s, i, i) = "/"}
    IN  IF I = {} THEN 0 ELSE CHOOSE i \in I : \A j \in I : j <= i

\* path.basename, on the characters
basenameOf(s) == SubSeq(s, lastSlash(s) + 1, Len(s))

\* path.dirname, on the characters
dirnameOf(s) == IF lastSlash(s) <= 1 THEN "/" ELSE SubSeq(s, 1, lastSlash(s) - 1)

uploadsRoot == "/uploads/documents"

\* every path and directory name the bounded ids, fields and tokens can form; the
\* string functions are tabulated over them once, and computed on the characters
\* for any other string
\* a file name multer generates for an upload whose original name ends in .temp-1:
\* the extension is path.extname(file.originalname), and the fileFilter tests the MIME
\* type only
OddName == documentFields[1] \o "-" \o "1" \o ".temp-1"

KnownNames == {f \o "-" \o t \o ".pdf" : f \in Slots, t \in Tokens} \cup {OddName}

KnownDirs ==
    {r \o "/" \o id : r \in {uploadsRoot, "/documents"},
                      id \in ClientIds \cup TempIds \cup SuppliedIds}

KnownPaths ==
    {d \o "/" \o n : d \in KnownDirs, n \in KnownNames}
    \cup {uploadsRoot \o "/" \o n : n \in KnownNames}

KnownStrings == KnownPaths \cup KnownDirs \cup {NULL}

basenameTable == [s \in KnownStrings |-> basenameOf(s)]

dirnameTable == [s \in KnownStrings |-> dirnameOf(s)]

basename(s) == IF s \in KnownStrings THEN basenameTable[s] ELSE basenameOf(s)

dirname(s) == IF s \in KnownStrings THEN dirnameTable[s] ELSE dirnameOf(s)

\* index of the first occurrence of p in s, 0 when there is none
indexOf(s, p) ==
    LET I == {i \in 1..Len(s) : i + Len(p) - 1 <= Len(s) /\ SubSeq(s, i, i + Len(p) - 1) = p}
    IN  IF I = {} THEN 0 ELSE CHOOSE i \in I : \A j \in I : i <= j

\* String.prototype.replace(pattern, by) with a string pattern: the first occurrence
replace(s, p, by) ==
    LET i == indexOf(s, p)
    IN  IF i = 0 THEN s
        ELSE SubSeq(s, 1, i - 1) \o by \o SubSeq(s, i + Len(p), Len(s))

HexDash == {"a", "b", "c", "d", "e", "f", "0", "1", "2", "3", "4", "5", "6", "7", "8", "9", "-"}

\* the character class [a-f0-9-]+
isHexDash(s) == Len(s) >= 1 /\ \A i \in 1..Len(s) : SubSeq(s, i, i) \in HexDash

\* docPath.startsWith('/documents/') && !docPath.startsWith('/uploads/documents/')
missingUploadsPrefixOf(docPath) ==
    startsWith(docPath, "/documents/") /\ ~startsWith(docPath, "/uploads/documents/")

missingUploadsPrefixTable == [s \in KnownStrings |-> missingUploadsPrefixOf(s)]

missingUploadsPrefix(docPath) ==
    IF docPath \in KnownStrings THEN missingUploadsPrefixTable[docPath]
    ELSE missingUploadsPrefixOf(docPath)

\* docPath.match(/\/uploads\/documents\/(temp-[a-f0-9-]+)\/([^\/]+)$/): whether the
\* expression matches, and its two groups
repairTempMatchOf(docPath) ==
    LET filename == basenameOf(docPath)
        d        == IF lastSlash(docPath) = 0 THEN "" ELSE SubSeq(docPath, 1, lastSlash(docPath) - 1)
        tempId   == basenameOf(d)
        before   == IF lastSlash(d) = 0 THEN "" ELSE SubSeq(d, 1, lastSlash(d) - 1)
    IN  IF /\ lastSlash(docPath) > 0
           /\ Len(filename) >= 1
           /\ lastSlash(d) > 0
           /\ startsWith(tempId, "temp-")
           /\ isHexDash(SubSeq(tempId, 6, Len(tempId)))
           /\ endsWith(before, uploadsRoot)
        THEN [ok |-> TRUE, tempId |-> tempId, filename |-> filename]
        ELSE [ok |-> FALSE, tempId |-> "", filename |-> ""]

repairTempMatchTable == [s \in KnownStrings |-> repairTempMatchOf(s)]

repairTempMatch(docPath) ==
    IF docPath \in KnownStrings THEN repairTempMatchTable[docPath]
    ELSE repairTempMatchOf(docPath)

\* docPath.match(/\/uploads\/documents\/temp-[^\/]+\/([^\/]+)$/): whether the
\* expression matches, and its group 1
scanTempMatchOf(docPath) ==
    LET filename == basenameOf(docPath)
        d        == IF lastSlash(docPath) = 0 THEN "" ELSE SubSeq(docPath, 1, lastSlash(docPath) - 1)
        tempId   == basenameOf(d)
        before   == IF lastSlash(d) = 0 THEN "" ELSE SubSeq(d, 1, lastSlash(d) - 1)
    IN  IF /\ lastSlash(docPath) > 0
           /\ Len(filename) >= 1
           /\ lastSlash(d) > 0
           /\ startsWith(tempId, "temp-")
           /\ Len(tempId) >= 6
           /\ endsWith(before, uploadsRoot)
        THEN [ok |-> TRUE, filename |-> filename]
        ELSE [ok |-> FALSE, filename |-> ""]

\* the same expression without its \/uploads part: it also matches
\* /documents/temp-.../<filename>
scanTempMatchAnyRoot(docPath) ==
    LET filename == basenameOf(docPath)
        d        == IF lastSlash(docPath) = 0 THEN "" ELSE SubSeq(docPath, 1, lastSlash(docPath) - 1)
        tempId   == basenameOf(d)
        before   == IF lastSlash(d) = 0 THEN "" ELSE SubSeq(d, 1, lastSlash(d) - 1)
    IN  IF /\ lastSlash(docPath) > 0
           /\ Len(filename) >= 1
           /\ lastSlash(d) > 0
           /\ startsWith(tempId, "temp-")
           /\ Len(tempId) >= 6
           /\ endsWith(before, "/documents")
        THEN [ok |-> TRUE, filename |-> filename]
        ELSE [ok |-> FALSE, filename |-> ""]

scanTempMatchTable == [s \in KnownStrings |-> scanTempMatchOf(s)]

scanTempMatch(docPath) ==
    IF docPath \in KnownStrings THEN scanTempMatchTable[docPath]
    ELSE scanTempMatchOf(docPath)

\* docPath.includes(part), tabulated for the parts the handlers test
KnownParts ==
    {"temp-", "/temp-"} \cup {"/" \o id \o "/" : id \in ClientIds \cup TempIds \cup SuppliedIds}

includesTable == [s \in KnownStrings |-> [p \in KnownParts |-> includes(s, p)]]

pathIncludes(docPath, part) ==
    IF docPath \in KnownStrings /\ part \in KnownParts THEN includesTable[docPath][part]
    ELSE includes(docPath, part)

\* oldPath.replace(tempClientId, clientId), tabulated the same way
replaceTable ==
    [s \in KnownPaths |->
        [t \in TempIds |-> [c \in ClientIds \cup SuppliedIds |-> replace(s, t, c)]]]

pathReplace(oldPath, tempClientId, clientId) ==
    IF oldPath \in KnownPaths /\ tempClientId \in TempIds
       /\ clientId \in ClientIds \cup SuppliedIds
    THEN replaceTable[oldPath][tempClientId][clientId]
    ELSE replace(oldPath, tempClientId, clientId)

(***************************************************************************)
(* The file store: `dirs` is the set of directories below the application  *)
(* root, `files` maps each existing file to its content.                   *)
(***************************************************************************)
Uploaded == "uploaded"

Placeholder == "placeholder"

\* fs.existsSync
existsSync(d, f, p) == p \in d \/ p \in DOMAIN f

\* the directory of a namespace below uploads/documents
nsDir(id) == uploadsRoot \o "/" \o id

\* fs.mkdirSync(p, { recursive: true }) below uploads/documents, which start-up created
mkdirSync(d, p) == d \cup {p}

\* fs.writeFileSync / fs.copyFileSync: the file at p gets content c
putFile(f, p, c) == [q \in DOMAIN f \cup {p} |-> IF q = p THEN c ELSE f[q]]

\* fs.unlinkSync
unlinkSync(f, p) == [q \in DOMAIN f \ {p} |-> f[q]]

\* the files directly inside directory p (fs.readdirSync)
readdirSync(f, p) == {basename(q) : q \in {r \in DOMAIN f : dirname(r) = p}}

(***************************************************************************)
(* The record store: `clients` maps the id of each row of the clients      *)
(* table to its document fields.                                           *)
(***************************************************************************)
noUpdates == [s \in {} |-> NULL]

\* updates[field] = value
setField(u, field, value) == [s \in DOMAIN u \cup {field} |-> IF s = field THEN value ELSE u[s]]

\* UPDATE clients SET ? WHERE id = ? : the fields of `updates` overwrite the row, if there is one
updateRow(cl, id, updates) ==
    IF id \in DOMAIN cl
    THEN [cl EXCEPT ![id] = [s \in Slots |-> IF s \in DOMAIN updates THEN updates[s] ELSE @[s]]]
    ELSE cl

(***************************************************************************)
(* Faults of the environment that a handler run can meet: the SELECT that  *)
(* reads the rows fails, the UPDATE of the clients in `who` fails,         *)
(* fs.mkdirSync throws, fs.writeFileSync / fs.copyFileSync throws.         *)
(***************************************************************************)
NoFault == [kind |-> "none", who |-> {}]

Faults ==
    {NoFault}
    \cup {[kind |-> k, who |-> {}] : k \in {"select", "mkdir", "write"}}
    \cup {[kind |-> "update", who |-> W] : W \in {{ClientOrder[1]}, ClientIds}}

dbError(id) == [kind |-> "db", at |-> id]

fileError(p) == [kind |-> "file", at |-> p]

(***************************************************************************)
(* GET /api/repair-all-documents                                           *)
(***************************************************************************)
\* the branch of a path the regular expression matches: tempDir and tempFilePath
\* are built from its groups
repairTempFile(acc, fault, tempDir, tempFilePath) ==
    LET needDir == ~existsSync(acc.d, acc.f, tempDir)
        a1 == IF needDir
              THEN [acc EXCEPT !.d = mkdirSync(@, tempDir),
                               !.createdDirectories = @ + 1]
              ELSE acc
    IN  IF needDir /\ fault.kind = "mkdir"
        THEN [acc EXCEPT !.aborted = TRUE, !.cause = "mkdir"]
        ELSE IF ~existsSync(a1.d, a1.f, tempFilePath)
        THEN IF fault.kind = "write"
             THEN [a1 EXCEPT !.errors = Append(@, fileError(tempFilePath))]
             ELSE [a1 EXCEPT !.f = putFile(@, tempFilePath, Placeholder),
                             !.fixedPaths = @ + 1]
        ELSE a1

\* the loop body with a prefix branch that also writes a file at the corrected path
repairFieldPlacing(acc, fault, docPath, field) ==
    IF docPath = NULL THEN acc
    ELSE IF repairTempMatch(docPath).ok
    THEN repairTempFile(acc, fault, nsDir(repairTempMatch(docPath).tempId),
                        nsDir(repairTempMatch(docPath).tempId) \o "/"
                            \o repairTempMatch(docPath).filename)
    ELSE IF missingUploadsPrefix(docPath)
    THEN [acc EXCEPT !.updates = setField(@, field, "/uploads" \o docPath),
                     !.f = putFile(@, "/uploads" \o docPath, Placeholder),
                     !.fixedPaths = @ + 1]
    ELSE acc

\* the loop body over documentFields, for the path docPath of `field`
repairField(acc, fault, docPath, field) ==
    IF docPath = NULL THEN acc
    ELSE IF repairTempMatch(docPath).ok
    THEN repairTempFile(acc, fault, nsDir(repairTempMatch(docPath).tempId),
                        nsDir(repairTempMatch(docPath).tempId) \o "/"
                            \o repairTempMatch(docPath).filename)
    ELSE IF missingUploadsPrefix(docPath)
    THEN [acc EXCEPT !.updates = setField(@, field, "/uploads" \o docPath),
                     !.fixedPaths = @ + 1]
    ELSE acc

RECURSIVE repairFields(_, _, _, _)
repairFields(acc, fault, row, i) ==
    IF i > Len(documentFields) \/ acc.aborted THEN acc
    ELSE repairFields(repairField(acc, fault, row[documentFields[i]], documentFields[i]),
                      fault, row, i + 1)

\* the update block without its try/catch: a failed UPDATE reaches the outer catch
repairUpdateUncaught(acc, fault, clientId) ==
    IF acc.aborted \/ DOMAIN acc.updates = {} THEN acc
    ELSE IF fault.kind = "update" /\ clientId \in fault.who
    THEN [acc EXCEPT !.aborted = TRUE, !.cause = "update"]
    ELSE [acc EXCEPT !.cl = updateRow(@, clientId, acc.updates)]

\* the update block that ends one client's iteration (an iteration the outer catch
\* already ended does not reach it)
repairUpdate(acc, fault, clientId) ==
    IF acc.aborted \/ DOMAIN acc.updates = {} THEN acc
    ELSE IF fault.kind = "update" /\ clientId \in fault.who
    THEN [acc EXCEPT !.errors = Append(@, dbError(clientId))]
    ELSE [acc EXCEPT !.cl = updateRow(@, clientId, acc.updates)]

\* one iteration of the loop over the rows read at the start
repairClient(acc, fault, clientId, row) ==
    LET clientDir == nsDir(clientId)
        needDir == ~existsSync(acc.d, acc.f, clientDir)
        a1 == IF needDir
              THEN [acc EXCEPT !.d = mkdirSync(@, clientDir),
                               !.createdDirectories = @ + 1,
                               !.updates = noUpdates]
              ELSE [acc EXCEPT !.updates = noUpdates]
    IN  IF needDir /\ fault.kind = "mkdir"
        THEN [acc EXCEPT !.aborted = TRUE, !.cause = "mkdir"]
        ELSE repairUpdate(repairFields(a1, fault, row, 1), fault, clientId)

RECURSIVE repairClients(_, _, _, _)
repairClients(acc, fault, rows, i) ==
    IF i > Len(ClientOrder) \/ acc.aborted THEN acc
    ELSE IF ClientOrder[i] \in DOMAIN rows
    THEN repairClients(repairClient(acc, fault, ClientOrder[i], rows[ClientOrder[i]]),
                       fault, rows, i + 1)
    ELSE repairClients(acc, fault, rows, i + 1)

\* the whole pass over the store cl and the disk (d, f)
repairAll(cl, d, f, fault) ==
    repairClients([cl |-> cl, d |-> d, f |-> f, fixedPaths |-> 0,
                   createdDirectories |-> 0, errors |-> <<>>,
                   updates |-> noUpdates, aborted |-> FALSE, cause |-> "none"],
                  fault, cl, 1)

(***************************************************************************)
(* Client.getAll(limit = 100, offset = 0) and Client.update                *)
(***************************************************************************)
getAllLimit == 100

\* a row of the table that has no documents and whose directory exists
OtherId == "other"

RECURSIVE orderedIds(_, _, _)
orderedIds(cl, nw, i) ==
    IF i > Len(ClientOrder) THEN <<>>
    ELSE IF ClientOrder[i] \in DOMAIN cl /\ ClientOrder[i] \notin {nw[j] : j \in 1..Len(nw)}
    THEN <<ClientOrder[i]>> \o orderedIds(cl, nw, i + 1)
    ELSE orderedIds(cl, nw, i + 1)

\* the rows by created_at DESC: the clients created since start-up (nw, newest
\* first), the n rows without documents, the clients that were there before them
byCreatedAtDesc(cl, nw, n) == nw \o [i \in 1..n |-> OtherId] \o orderedIds(cl, nw, 1)

\* SELECT * FROM clients ORDER BY created_at DESC LIMIT ? OFFSET ? : the ids, in order
getAll(cl, nw, n) ==
    IF Len(nw) + n + Len(orderedIds(cl, nw, 1)) > getAllLimit
    THEN SubSeq(byCreatedAtDesc(cl, nw, n), 1, getAllLimit)
    ELSE byCreatedAtDesc(cl, nw, n)

(***************************************************************************)
(* POST /diagnostic/check-documents                                        *)
(***************************************************************************)
docResult(clientId, field, docPath, status, newPath) ==
    [clientId |-> clientId, field |-> field, originalPath |-> docPath,
     status |-> status, newPath |-> newPath]

\* the same branch moving the temp file (fs.renameSync) where the code copies it
scanFixTempByMove(acc, fault, clientId, field, docPath, filename) ==
    LET newRelativePath == uploadsRoot \o "/" \o clientId \o "/" \o filename
        a2 == [acc EXCEPT !.d = mkdirSync(@, dirname(newRelativePath)),
                          !.f = unlinkSync(putFile(@, newRelativePath, acc.f[docPath]), docPath)]
    IN  [a2 EXCEPT !.cl = updateRow(@, clientId, setField(noUpdates, field, newRelativePath)),
                   !.fixedPaths = @ + 1,
                   !.details = @ \cup {docResult(clientId, field, docPath, "fixed", newRelativePath)}]

\* the branch taken when the temp file exists: create the directory, copy, update
scanFixTemp(acc, fault, clientId, field, docPath, filename) ==
    LET newRelativePath == uploadsRoot \o "/" \o clientId \o "/" \o filename
        targetDir == dirname(newRelativePath)
        needDir == ~existsSync(acc.d, acc.f, targetDir)
        failed(a) == [a EXCEPT !.errors = Append(@, fileError(docPath)),
                               !.details = @ \cup {docResult(clientId, field, docPath, "error", NULL)}]
        a1 == IF needDir THEN [acc EXCEPT !.d = mkdirSync(@, targetDir)] ELSE acc
        a2 == [a1 EXCEPT !.f = putFile(@, newRelativePath, acc.f[docPath])]
    IN  IF needDir /\ fault.kind = "mkdir" THEN failed(acc)
        ELSE IF fault.kind = "write" \/ docPath \notin DOMAIN acc.f THEN failed(a1)
        ELSE IF fault.kind = "update" /\ clientId \in fault.who THEN failed(a2)
        ELSE [a2 EXCEPT !.cl = updateRow(@, clientId, setField(noUpdates, field, newRelativePath)),
                        !.fixedPaths = @ + 1,
                        !.details = @ \cup {docResult(clientId, field, docPath, "fixed", newRelativePath)}]

\* the loop body over documentFields
scanField(acc, fault, clientId, field, docPath) ==
    LET a0 == [acc EXCEPT !.checkedDocuments = @ + 1]
        m == scanTempMatch(docPath)
        report(a, status) ==
            [a EXCEPT !.details = @ \cup {docResult(clientId, field, docPath, status, NULL)}]
    IN  IF docPath = NULL THEN acc
        ELSE IF pathIncludes(docPath, "temp-")
        THEN LET a1 == [a0 EXCEPT !.tempFiles = @ + 1]
             IN  IF ~m.ok THEN report(a1, "temp-path")
                 ELSE IF existsSync(a1.d, a1.f, docPath)
                 THEN scanFixTemp(a1, fault, clientId, field, docPath, m.filename)
                 ELSE report([a1 EXCEPT !.missingFiles = @ + 1], "missing-temp-file")
        ELSE IF ~existsSync(a0.d, a0.f, docPath)
        THEN report([a0 EXCEPT !.missingFiles = @ + 1], "missing-file")
        ELSE report(a0, "ok")

RECURSIVE scanFields(_, _, _, _, _)
scanFields(acc, fault, clientId, row, i) ==
    IF i > Len(documentFields) THEN acc
    ELSE scanFields(scanField(acc, fault, clientId, documentFields[i], row[documentFields[i]]),
                    fault, clientId, row, i + 1)

\* one iteration of the loop over allClients
scanClient(acc, fault, clientId, row) ==
    LET clientDir == nsDir(clientId)
        needDir == ~existsSync(acc.d, acc.f, clientDir)
        a1 == IF needDir THEN [acc EXCEPT !.d = mkdirSync(@, clientDir)] ELSE acc
    IN  IF needDir /\ fault.kind = "mkdir"
        THEN [acc EXCEPT !.aborted = TRUE, !.cause = "mkdir"]
        ELSE scanFields(a1, fault, clientId, row, 1)

RECURSIVE scanClients(_, _, _, _, _)
scanClients(acc, fault, rows, ids, i) ==
    IF i > Len(ids) \/ acc.aborted THEN acc
    ELSE IF ids[i] = OtherId THEN scanClients(acc, fault, rows, ids, i + 1)
    ELSE scanClients(scanClient(acc, fault, ids[i], rows[ids[i]]), fault, rows, ids, i + 1)

scanAll(cl, d, f, allClients, fault) ==
    scanClients([cl |-> cl, d |-> d, f |-> f, checkedDocuments |-> 0, missingFiles |-> 0,
                 tempFiles |-> 0, fixedPaths |-> 0, errors |-> <<>>, details |-> {},
                 aborted |-> FALSE, cause |-> "none"],
                fault, cl, allClients, 1)

(***************************************************************************)
(* POST /diagnostic/fix-document-paths                                     *)
(***************************************************************************)
\* the loop body over documentFields
fixPathsField(acc, field, docPath) ==
    IF docPath = NULL THEN acc
    ELSE IF missingUploadsPrefix(docPath)
    THEN [acc EXCEPT !.checkedPaths = @ + 1,
                     !.updates = setField(@, field, "/uploads" \o docPath),
                     !.fixedPaths = @ + 1]
    ELSE [acc EXCEPT !.checkedPaths = @ + 1]

RECURSIVE fixPathsFields(_, _, _)
fixPathsFields(acc, row, i) ==
    IF i > Len(documentFields) THEN acc
    ELSE fixPathsFields(fixPathsField(acc, documentFields[i], row[documentFields[i]]), row, i + 1)

\* one iteration of the loop over allClients, with its update block
fixPathsClient(acc, fault, clientId, row) ==
    LET a1 == fixPathsFields([acc EXCEPT !.updates = noUpdates], row, 1)
    IN  IF DOMAIN a1.updates = {} THEN a1
        ELSE IF fault.kind = "update" /\ clientId \in fault.who
        THEN [a1 EXCEPT !.errors = Append(@, dbError(clientId))]
        ELSE [a1 EXCEPT !.cl = updateRow(@, clientId, a1.updates),
                        !.details = @ \cup {clientId}]

RECURSIVE fixPathsClients(_, _, _, _, _)
fixPathsClients(acc, fault, rows, ids, i) ==
    IF i > Len(ids) THEN acc
    ELSE IF ids[i] = OtherId THEN fixPathsClients(acc, fault, rows, ids, i + 1)
    ELSE fixPathsClients(fixPathsClient(acc, fault, ids[i], rows[ids[i]]), fault, rows, ids, i + 1)

fixPathsAll(cl, allClients, fault) ==
    fixPathsClients([cl |-> cl, checkedPaths |-> 0, fixedPaths |-> 0, errors |-> <<>>,
                     details |-> {}, updates |-> noUpdates],
                    fault, cl, allClients, 1)

(***************************************************************************)
(* POST /api/fix-client-document-paths                                     *)
(***************************************************************************)
\* the loop body over documentFields, for the row of clientId
fixClientField(acc, clientId, field, currentPath) ==
    LET a1 == IF missingUploadsPrefix(currentPath)
              THEN [acc EXCEPT !.updates = setField(@, field, "/uploads" \o currentPath)]
              ELSE acc
        filename == basename(currentPath)
        newPath == uploadsRoot \o "/" \o clientId \o "/" \o filename
        parentDir == dirname(newPath)
        a2 == [a1 EXCEPT !.updates = setField(@, field, newPath),
                         !.d = IF existsSync(a1.d, a1.f, parentDir) THEN @ ELSE mkdirSync(@, parentDir)]
    IN  IF currentPath = NULL THEN acc
        ELSE IF pathIncludes(currentPath, "/temp-")
                /\ ~pathIncludes(currentPath, "/" \o clientId \o "/")
        THEN IF ~existsSync(a2.d, a2.f, newPath)
             THEN [a2 EXCEPT !.f = putFile(@, newPath, Placeholder),
                             !.createdPlaceholders = @ \cup {newPath}]
             ELSE a2
        ELSE a1

RECURSIVE fixClientFields(_, _, _, _)
fixClientFields(acc, clientId, row, i) ==
    IF i > Len(documentFields) THEN acc
    ELSE fixClientFields(fixClientField(acc, clientId, documentFields[i], row[documentFields[i]]),
                         clientId, row, i + 1)

fixClientPaths(cl, d, f, clientId) ==
    fixClientFields([d |-> d, f |-> f, updates |-> noUpdates, createdPlaceholders |-> {}],
                    clientId, cl[clientId], 1)

(***************************************************************************)
(* GET /api/fix-temp-document                                              *)
(***************************************************************************)
\* the copy loop over the files of tempDir
fixTempCopy(f, tempDir, clientDir) ==
    LET names == readdirSync(f, tempDir)
        dest == {clientDir \o "/" \o n : n \in names}
    IN  [q \in DOMAIN f \cup dest |->
            IF q \in dest THEN f[tempDir \o "/" \o basename(q)] ELSE f[q]]

(***************************************************************************)
(* POST /with-documents (create client with documents)                     *)
(***************************************************************************)
\* multer's filename callback: `${documentType}-${uniqueId}${fileExtension}`
fileName(field, token) == field \o "-" \o token \o ".pdf"

\* multer's destination callback and disk write, once per uploaded file: dst[field]
\* is the id the callback computed for that file (req.params.id || `temp-${uuidv4()}`)
multerStore(d, f, uploaded, dst, token) ==
    [d |-> d \cup {nsDir(dst[s]) : s \in uploaded},
     f |-> [q \in DOMAIN f \cup {nsDir(dst[s]) \o "/" \o fileName(s, token) : s \in uploaded} |->
               IF \E s \in uploaded : q = nsDir(dst[s]) \o "/" \o fileName(s, token)
               THEN Uploaded ELSE f[q]],
     written |-> [s \in uploaded |-> nsDir(dst[s]) \o "/" \o fileName(s, token)]]

\* the handler's relativePath for each uploaded field, under its own tempClientId
recordedPaths(uploaded, tempClientId, token) ==
    [s \in uploaded |-> "/uploads/documents/" \o tempClientId \o "/" \o fileName(s, token)]

\* Client.create: const clientId = data.id || `C${uuidv4().substring(0, 8)}`
createId(id, generated) == IF id # NoId THEN id ELSE generated

\* Client.create: INSERT INTO clients (id, fields) VALUES (...)
insertRow(cl, clientId, data) ==
    [c \in DOMAIN cl \cup {clientId} |->
        IF c = clientId THEN [s \in Slots |-> IF s \in DOMAIN data THEN data[s] ELSE NULL]
        ELSE cl[c]]

\* a purge that removes nothing, so that the rename merges into the directory
rmSyncKeeping(d, f, dir) == [d |-> d, f |-> f]

\* fs.rmSync(dir, { recursive: true, force: true })
rmSync(d, f, dir) ==
    [d |-> d \ {dir}, f |-> [q \in {r \in DOMAIN f : dirname(r) # dir} |-> f[q]]]

\* fs.renameSync(from, to) of a directory
renameSync(d, f, from, to) ==
    LET moved == {r \in DOMAIN f : dirname(r) = from}
        kept == DOMAIN f \ moved
        target == {to \o "/" \o basename(r) : r \in moved}
    IN  [d |-> (d \ {from}) \cup {to},
         f |-> [q \in kept \cup target |->
                   IF q \in target THEN f[from \o "/" \o basename(q)] ELSE f[q]]]

\* the relocation block without its Client.update: the directory is moved and the
\* stored paths keep naming the staging directory
promoteWithoutRewrite(cl, d, f, tempClientId, clientId, clientData, fault) ==
    LET tempDir == nsDir(tempClientId)
        clientDir == nsDir(clientId)
        purged == IF existsSync(d, f, clientDir) THEN rmSync(d, f, clientDir)
                  ELSE [d |-> d, f |-> f]
        moved == renameSync(purged.d, purged.f, tempDir, clientDir)
    IN  IF ~existsSync(d, f, tempDir) THEN [cl |-> cl, d |-> d, f |-> f]
        ELSE IF fault.kind = "rename" THEN [cl |-> cl, d |-> purged.d, f |-> purged.f]
        ELSE [cl |-> cl, d |-> moved.d, f |-> moved.f]

\* the relocation block: purge, rename, rewrite the references; an exception of
\* fs.renameSync or Client.update is caught and logged
promote(cl, d, f, tempClientId, clientId, clientData, fault) ==
    LET tempDir == nsDir(tempClientId)
        clientDir == nsDir(clientId)
        purged == IF existsSync(d, f, clientDir) THEN rmSync(d, f, clientDir)
                  ELSE [d |-> d, f |-> f]
        moved == renameSync(purged.d, purged.f, tempDir, clientDir)
        updateData == [s \in DOMAIN clientData |-> pathReplace(clientData[s], tempClientId, clientId)]
    IN  IF ~existsSync(d, f, tempDir) THEN [cl |-> cl, d |-> d, f |-> f]
        ELSE IF fault.kind = "rename" THEN [cl |-> cl, d |-> purged.d, f |-> purged.f]
        ELSE IF fault.kind = "update" THEN [cl |-> cl, d |-> moved.d, f |-> moved.f]
        ELSE [cl |-> updateRow(cl, clientId, updateData), d |-> moved.d, f |-> moved.f]

\* the fire-and-forget GET /api/repair-all-documents at the end of the handler:
\* when it runs, the store and the disk are what the repair pass leaves
triggerRepair(p, repairRuns) ==
    IF repairRuns THEN repairAll(p.cl, p.d, p.f, NoFault) ELSE p

\* a handler that answers 500 when a reference it recorded was left as recorded
createdOrFailed(out, written, recorded) ==
    [cl |-> out.cl, d |-> out.d, f |-> out.f,
     http |-> IF \E c \in DOMAIN out.cl : \E s \in DOMAIN recorded : out.cl[c][s] = recorded[s]
              THEN 500 ELSE 201,
     written |-> written, recorded |-> recorded]

\* res.status(201).json(...)
created(out, written, recorded) ==
    [cl |-> out.cl, d |-> out.d, f |-> out.f, http |-> 201,
     written |-> written, recorded |-> recorded]

\* the handler after multer: create the row, promote, trigger the repair pass
createWithDocuments(cl, d, f, clientId, tempClientId, uploaded, dst, token, fault, repairRuns) ==
    LET stored == multerStore(d, f, uploaded, dst, token)
        clientData == recordedPaths(uploaded, tempClientId, token)
    IN  IF fault.kind = "insert"
        THEN [cl |-> cl, d |-> stored.d, f |-> stored.f, http |-> 500,
              written |-> stored.written, recorded |-> clientData]
        ELSE created(triggerRepair(promote(insertRow(cl, clientId, clientData),
                                           stored.d, stored.f, tempClientId, clientId,
                                           clientData, fault),
                                   repairRuns),
                     stored.written, clientData)

(***************************************************************************)
(* PUT /:id/with-documents, POST /:id/documents, DELETE /:id/documents/    *)
(* :documentType and DELETE /:id                                           *)
(***************************************************************************)
\* "Delete old file if exists", for the fields `fields` of the row read by getById
unlinkOld(f, row, fields) == [q \in DOMAIN f \ {row[s] : s \in fields} |-> f[q]]

\* PUT /:id/with-documents: multer has stored the files under the id of the URL
updateWithDocuments(cl, d, f, id, uploaded, token, fault, repairRuns) ==
    LET stored == multerStore(d, f, uploaded, [s \in uploaded |-> id], token)
        clientData == [s \in uploaded |-> "/uploads/documents/" \o fileName(s, token)]
    IN  IF id \notin DOMAIN cl
        THEN [cl |-> cl, d |-> stored.d, f |-> stored.f, http |-> 404,
              written |-> stored.written, recorded |-> clientData]
        ELSE IF fault.kind = "update"
        THEN [cl |-> cl, d |-> stored.d, f |-> unlinkOld(stored.f, cl[id], uploaded),
              http |-> 500, written |-> stored.written, recorded |-> clientData]
        ELSE [created(triggerRepair([cl |-> updateRow(cl, id, clientData), d |-> stored.d,
                                     f |-> unlinkOld(stored.f, cl[id], uploaded)],
                                    repairRuns),
                      stored.written, clientData)
              EXCEPT !.http = 200]

\* POST /:id/documents: one file, stored by multer under the id of the URL
uploadDocument(cl, d, f, id, documentType, token, fault) ==
    LET stored == multerStore(d, f, {documentType}, [s \in {documentType} |-> id], token)
        relativePath == "/uploads/documents/" \o id \o "/" \o fileName(documentType, token)
        clientData == [s \in {documentType} |-> relativePath]
    IN  IF id \notin DOMAIN cl
        THEN [cl |-> cl, d |-> stored.d, f |-> stored.f, http |-> 404,
              written |-> stored.written, recorded |-> clientData]
        ELSE IF fault.kind = "update"
        THEN [cl |-> cl, d |-> mkdirSync(stored.d, nsDir(id)),
              f |-> unlinkOld(stored.f, cl[id], {documentType}),
              http |-> 500, written |-> stored.written, recorded |-> clientData]
        ELSE [cl |-> updateRow(cl, id, clientData), d |-> mkdirSync(stored.d, nsDir(id)),
              f |-> unlinkOld(stored.f, cl[id], {documentType}),
              http |-> 200, written |-> stored.written, recorded |-> clientData]

\* DELETE /:id/documents/:documentType
deleteDocument(cl, f, id, documentType, fault) ==
    IF id \notin DOMAIN cl THEN [cl |-> cl, f |-> f, http |-> 404]
    ELSE IF cl[id][documentType] = NULL THEN [cl |-> cl, f |-> f, http |-> 404]
    ELSE IF fault.kind = "update"
    THEN [cl |-> cl, f |-> unlinkOld(f, cl[id], {documentType}), http |-> 500]
    ELSE [cl |-> updateRow(cl, id, setField(noUpdates, documentType, NULL)),
          f |-> unlinkOld(f, cl[id], {documentType}), http |-> 200]

\* Client.delete: DELETE FROM clients WHERE id = ?
deleteRow(cl, id) == [c \in DOMAIN cl \ {id} |-> cl[c]]

\* DELETE /:id
deleteClient(cl, f, id, fault) ==
    IF id \notin DOMAIN cl THEN [cl |-> cl, f |-> f, http |-> 404]
    ELSE IF fault.kind = "delete"
    THEN [cl |-> cl, f |-> unlinkOld(f, cl[id], Slots), http |-> 500]
    ELSE [cl |-> deleteRow(cl, id), f |-> unlinkOld(f, cl[id], Slots), http |-> 200]

(***************************************************************************)
(* The state at start-up: the clients table and the uploads tree persist   *)
(* across restarts, so the server starts on whatever earlier runs left.    *)
(***************************************************************************)
canonical(ns, name) == uploadsRoot \o "/" \o ns \o "/" \o name

legacy(ns, name) == "/documents/" \o ns \o "/" \o name

StartRows(c) ==
    IF c = ClientOrder[1]
    THEN [nic_proof : {NULL, canonical(c, fileName("nic_proof", "1")),
                       canonical("temp-a1", fileName("nic_proof", "1")),
                       legacy(c, fileName("nic_proof", "1")),
                       legacy("temp-a1", fileName("nic_proof", "1")),
                       canonical(c, OddName)},
          dob_proof : {NULL, legacy(c, fileName("dob_proof", "1"))}]
    ELSE [nic_proof : {legacy(c, fileName("nic_proof", "1"))},
          dob_proof : {NULL}]

StartStores ==
    {cl \in UNION {[D -> UNION {StartRows(c) : c \in ClientIds}] :
                      D \in {{ClientOrder[1]}, ClientIds}} :
        /\ \A c \in DOMAIN cl : cl[c] \in StartRows(c)
        /\ cl[ClientOrder[1]]["dob_proof"] # NULL => ClientOrder[2] \in DOMAIN cl
        /\ cl[ClientOrder[1]]["nic_proof"] = canonical(ClientOrder[1], OddName)
           => DOMAIN cl = {ClientOrder[1]}}

StartFiles ==
    {[q \in D |-> Uploaded] :
        D \in {{}, {canonical(ClientOrder[1], fileName("nic_proof", "1"))},
                   {canonical("temp-a1", fileName("nic_proof", "1"))}}}

\* the files on disk at start-up, for the rows cl
StartFilesOf(cl) ==
    IF cl[ClientOrder[1]]["nic_proof"] = canonical(ClientOrder[1], OddName)
    THEN {[q \in D |-> Uploaded] : D \in {{}, {canonical(ClientOrder[1], OddName)}}}
    ELSE StartFiles

\* the number of rows of other clients, all without documents and each with its
\* directory: none, or as many as one page of getAll holds
OtherRows == getAllLimit

StartOthers(cl, f) ==
    IF DOMAIN cl = {ClientOrder[1]} /\ DOMAIN f = {} THEN {0, OtherRows} ELSE {0}

\* what a handler run returned: the operation, the HTTP status and the counters of
\* its result object
result(op, http, fixedPaths, createdDirectories, errors, details, info) ==
    [op |-> op, http |-> http, fixedPaths |-> fixedPaths,
     createdDirectories |-> createdDirectories, errors |-> errors,
     details |-> details, info |-> info]

\* the rows a repair pass holds between its SELECT and its loop; none outside a pass
NoneSelected == [active |-> FALSE, rows |-> << >>]

Init ==
    /\ clients \in StartStores
    /\ files \in StartFilesOf(clients)
    /\ dirs = {dirname(q) : q \in DOMAIN files}
    /\ newer = <<>>
    /\ others \in StartOthers(clients, files)
    /\ res = result("start", 0, 0, 0, <<>>, {}, "none")
    /\ nOps = 0
    /\ selected = NoneSelected

(***************************************************************************)
(* The handlers, one action each.                                          *)
(***************************************************************************)
Repair(fault) ==
    /\ nOps < MaxOps
    /\ nOps' = nOps + 1
    /\ UNCHANGED <<newer, others, selected>>
    /\ IF fault.kind = "select"
       THEN /\ UNCHANGED <<clients, dirs, files>>
            /\ res' = result("repair", 500, 0, 0, <<>>, {}, "select")
       ELSE \E out \in {repairAll(clients, dirs, files, fault)} :
            /\ clients' = out.cl
            /\ dirs' = out.d
            /\ files' = out.f
            /\ res' = IF out.aborted
                      THEN result("repair", 500, 0, 0, <<>>, {}, out.cause)
                      ELSE result("repair", 200, out.fixedPaths, out.createdDirectories,
                                  out.errors, {}, "none")

Scan(fault) ==
    /\ nOps < MaxOps
    /\ nOps' = nOps + 1
    /\ UNCHANGED <<newer, others, selected>>
    /\ IF fault.kind = "select"
       THEN /\ UNCHANGED <<clients, dirs, files>>
            /\ res' = result("scan", 500, 0, 0, <<>>, {}, "select")
       ELSE \E out \in {scanAll(clients, dirs, files, getAll(clients, newer, others), fault)} :
            /\ clients' = out.cl
            /\ dirs' = out.d
            /\ files' = out.f
            /\ res' = IF out.aborted
                      THEN result("scan", 500, 0, 0, <<>>, {}, out.cause)
                      ELSE result("scan", 200, out.fixedPaths, 0, out.errors, out.details,
                                  [totalClients |-> Len(getAll(clients, newer, others)),
                                   checkedDocuments |-> out.checkedDocuments,
                                   missingFiles |-> out.missingFiles,
                                   tempFiles |-> out.tempFiles])

FixDocumentPaths(fault) ==
    /\ nOps < MaxOps
    /\ nOps' = nOps + 1
    /\ UNCHANGED <<newer, others, selected>>
    /\ fault.kind \in {"none", "select", "update"}
    /\ UNCHANGED <<dirs, files>>
    /\ IF fault.kind = "select"
       THEN /\ UNCHANGED clients
            /\ res' = result("fixPaths", 500, 0, 0, <<>>, {}, "select")
       ELSE \E out \in {fixPathsAll(clients, getAll(clients, newer, others), fault)} :
            /\ clients' = out.cl
            /\ res' = result("fixPaths", 200, out.fixedPaths, 0, out.errors, out.details,
                             [checkedPaths |-> out.checkedPaths])

FixClientDocumentPaths(clientId, fault) ==
    /\ nOps < MaxOps
    /\ nOps' = nOps + 1
    /\ UNCHANGED <<newer, others, selected>>
    /\ fault.kind \in {"none", "update"}
    /\ IF clientId \notin DOMAIN clients
       THEN /\ UNCHANGED <<clients, dirs, files>>
            /\ res' = result("fixClient", 404, 0, 0, <<>>, {}, clientId)
       ELSE \E out \in {fixClientPaths(clients, dirs, files, clientId)} :
            /\ dirs' = out.d
            /\ files' = out.f
            /\ IF DOMAIN out.updates # {} /\ fault.kind = "update"
               THEN /\ UNCHANGED clients
                    /\ res' = result("fixClient", 500, 0, 0, <<>>, {}, clientId)
               ELSE /\ clients' = updateRow(clients, clientId, out.updates)
                    /\ res' = result("fixClient", 200, Cardinality(DOMAIN out.updates), 0,
                                     <<>>, out.createdPlaceholders, clientId)

FixTempDocument(tempId, clientId) ==
    LET tempDir == nsDir(tempId)
        clientDir == nsDir(clientId)
    IN  /\ nOps < MaxOps
        /\ nOps' = nOps + 1
        /\ UNCHANGED <<clients, newer, others, selected>>
        /\ IF ~existsSync(dirs, files, tempDir)
           THEN /\ UNCHANGED <<dirs, files>>
                /\ res' = result("fixTemp", 404, 0, 0, <<>>, {}, [tempId |-> tempId, clientId |-> clientId])
           ELSE /\ dirs' = mkdirSync(dirs, clientDir)
                /\ IF readdirSync(files, tempDir) = {}
                   THEN /\ UNCHANGED files
                        /\ res' = result("fixTemp", 404, 0, 0, <<>>, {}, [tempId |-> tempId, clientId |-> clientId])
                   ELSE /\ files' = fixTempCopy(files, tempDir, clientDir)
                        /\ res' = result("fixTemp", 200, 0, 0, <<>>,
                                         readdirSync(files, tempDir),
                                         [tempId |-> tempId, clientId |-> clientId])

\* a token no file name on disk and no stored path uses yet
freshToken ==
    LET used == {t \in Tokens : \E s \in Slots :
                    \/ \E q \in DOMAIN files : basename(q) = fileName(s, t)
                    \/ \E c \in DOMAIN clients : \E x \in Slots :
                          clients[c][x] # NULL /\ basename(clients[c][x]) = fileName(s, t)}
    IN  Tokens \ used

\* the rows of seq whose id is not in gone
without(seq, gone) ==
    LET kept(x) == x \notin gone
    IN  SelectSeq(seq, kept)

\* id is the id field of the request body, generated the id uuidv4 would give
CreateWithDocuments(id, generated, tempClientId, uploaded, dst, fault, repairRuns) ==
    /\ nOps < MaxOps
    /\ nOps' = nOps + 1
    /\ createId(id, generated) \notin DOMAIN clients
    /\ freshToken # {}
    /\ fault.kind \in {"none", "insert", "rename", "update"}
    /\ UNCHANGED <<others, selected>>
    /\ \E clientId \in {createId(id, generated)} :
       \E out \in {createWithDocuments(clients, dirs, files, clientId, tempClientId,
                                        uploaded, dst, CHOOSE t \in freshToken : TRUE,
                                        fault, repairRuns)} :
       /\ clients' = out.cl
       /\ newer' = IF clientId \in DOMAIN out.cl THEN <<clientId>> \o newer ELSE newer
       /\ dirs' = out.d
       /\ files' = out.f
       /\ res' = result("create", out.http, 0, 0, <<>>, {},
                        [clientId |-> clientId, tempClientId |-> tempClientId,
                         written |-> out.written, recorded |-> out.recorded,
                         fault |-> fault.kind, repairRuns |-> repairRuns,
                         clientDirExisted |-> existsSync(dirs, files, nsDir(clientId))])

UpdateWithDocuments(id, uploaded, fault, repairRuns) ==
    /\ nOps < MaxOps
    /\ nOps' = nOps + 1
    /\ UNCHANGED <<newer, others, selected>>
    /\ freshToken # {}
    /\ fault.kind \in {"none", "update"}
    /\ \E out \in {updateWithDocuments(clients, dirs, files, id, uploaded,
                                        CHOOSE t \in freshToken : TRUE, fault, repairRuns)} :
       /\ clients' = out.cl
       /\ dirs' = out.d
       /\ files' = out.f
       /\ res' = result("update", out.http, 0, 0, <<>>, {},
                        [id |-> id, written |-> out.written, recorded |-> out.recorded,
                         fault |-> fault.kind])

UploadDocument(id, documentType, fault) ==
    /\ nOps < MaxOps
    /\ nOps' = nOps + 1
    /\ UNCHANGED <<newer, others, selected>>
    /\ freshToken # {}
    /\ fault.kind \in {"none", "update"}
    /\ \E out \in {uploadDocument(clients, dirs, files, id, documentType,
                                   CHOOSE t \in freshToken : TRUE, fault)} :
       /\ clients' = out.cl
       /\ dirs' = out.d
       /\ files' = out.f
       /\ res' = result("upload", out.http, 0, 0, <<>>, {},
                        [id |-> id, field |-> documentType, written |-> out.written,
                         recorded |-> out.recorded, fault |-> fault.kind])

DeleteDocument(id, documentType, fault) ==
    /\ nOps < MaxOps
    /\ nOps' = nOps + 1
    /\ UNCHANGED <<newer, others, selected>>
    /\ fault.kind \in {"none", "update"}
    /\ UNCHANGED dirs
    /\ \E out \in {deleteDocument(clients, files, id, documentType, fault)} :
       /\ clients' = out.cl
       /\ files' = out.f
       /\ res' = result("deleteDocument", out.http, 0, 0, <<>>, {},
                        [id |-> id, field |-> documentType, fault |-> fault.kind])

DeleteClient(id, fault) ==
    /\ nOps < MaxOps
    /\ nOps' = nOps + 1
    /\ fault.kind \in {"none", "delete"}
    /\ UNCHANGED <<dirs, others, selected>>
    /\ \E out \in {deleteClient(clients, files, id, fault)} :
       /\ clients' = out.cl
       /\ newer' = without(newer, DOMAIN clients \ DOMAIN out.cl)
       /\ files' = out.f
       /\ res' = result("deleteClient", out.http, 0, 0, <<>>, {},
                        [id |-> id, fault |-> fault.kind])

CreateFaults ==
    {NoFault, [kind |-> "insert", who |-> {}], [kind |-> "rename", who |-> {}],
     [kind |-> "update", who |-> {}]}

\* what the environment does to one create request: the call that fails, and whether
\* the repair request at the end of the handler gets through (it is not sent when
\* the insert fails)
CreateOutcomes ==
    {[fault |-> x, repairRuns |-> r] : x \in CreateFaults, r \in BOOLEAN} \
    {[fault |-> [kind |-> "insert", who |-> {}], repairRuns |-> TRUE]}

\* the create requests explored: one file with every outcome, two files and a body
\* with an id when nothing fails
CreateRequests ==
    {[id |-> NoId, generated |-> g, tempClientId |-> t, uploaded |-> {"nic_proof"},
      dst |-> [s \in {"nic_proof"} |-> x], fault |-> o.fault, repairRuns |-> o.repairRuns] :
        g \in ClientIds, t \in TempIds, x \in TempIds, o \in CreateOutcomes}
    \cup {[id |-> NoId, generated |-> g, tempClientId |-> t, uploaded |-> Slots,
           dst |-> x, fault |-> NoFault, repairRuns |-> FALSE] :
             g \in ClientIds, t \in TempIds, x \in [Slots -> TempIds]}
    \cup {[id |-> i, generated |-> ClientOrder[2], tempClientId |-> t,
           uploaded |-> {"nic_proof"}, dst |-> [s \in {"nic_proof"} |-> x],
           fault |-> NoFault, repairRuns |-> r] :
             i \in SuppliedIds, t \in {"temp-a1"}, x \in TempIds, r \in BOOLEAN}

\* the update requests explored: the repair request is sent after a successful update
UpdateOutcomes ==
    {[fault |-> NoFault, repairRuns |-> r] : r \in BOOLEAN}
    \cup {[fault |-> [kind |-> "update", who |-> {}], repairRuns |-> FALSE]}

\* a single-document request and the call of it that fails: Client.update fails on
\* the first document field only
DocumentRequests ==
    {[documentType |-> s, fault |-> NoFault] : s \in Slots}
    \cup {[documentType |-> documentFields[1], fault |-> [kind |-> "update", who |-> {}]]}

Next ==
    \/ \E fault \in Faults : Repair(fault)
    \/ \E fault \in Faults : Scan(fault)
    \/ \E fault \in Faults : FixDocumentPaths(fault)
    \/ \E clientId \in ClientIds, fault \in {NoFault, [kind |-> "update", who |-> ClientIds]} :
          FixClientDocumentPaths(clientId, fault)
    \/ \E tempId \in TempIds, clientId \in ClientIds : FixTempDocument(tempId, clientId)
    \/ \E req \in CreateRequests :
          CreateWithDocuments(req.id, req.generated, req.tempClientId, req.uploaded, req.dst,
                              req.fault, req.repairRuns)
    \/ \E id \in ClientIds, o \in UpdateOutcomes :
          UpdateWithDocuments(id, {"nic_proof"}, o.fault, o.repairRuns)
    \/ \E id \in ClientIds, req \in DocumentRequests :
          UploadDocument(id, req.documentType, req.fault)
    \/ \E id \in ClientIds, req \in DocumentRequests :
          DeleteDocument(id, req.documentType, req.fault)
    \/ \E id \in ClientIds, fault \in {NoFault, [kind |-> "delete", who |-> {}]} :
          DeleteClient(id, fault)

Spec == Init /\ [][Next]_vars

(***************************************************************************)
(* repair-all-documents at the grain of its awaits: the SELECT resolves,   *)
(* other handlers may run, then the loop works on the rows it was given.   *)
(***************************************************************************)
\* the loop reading every row again from the store when it reaches it
repairLoopRereading(cl, d, f, fault, rows) ==
    repairClients([cl |-> cl, d |-> d, f |-> f, fixedPaths |-> 0,
                   createdDirectories |-> 0, errors |-> <<>>,
                   updates |-> noUpdates, aborted |-> FALSE, cause |-> "none"],
                  fault, cl, 1)

\* the loop over the rows of the SELECT, writing to the store as it is now
repairLoop(cl, d, f, fault, rows) ==
    repairClients([cl |-> cl, d |-> d, f |-> f, fixedPaths |-> 0,
                   createdDirectories |-> 0, errors |-> <<>>,
                   updates |-> noUpdates, aborted |-> FALSE, cause |-> "none"],
                  fault, rows, 1)

RepairSelect ==
    /\ nOps < MaxOps
    /\ ~selected.active
    /\ selected' = [active |-> TRUE, rows |-> clients]
    /\ UNCHANGED <<clients, newer, others, dirs, files, res, nOps>>

RepairLoop(fault) ==
    /\ nOps < MaxOps
    /\ selected.active
    /\ nOps' = nOps + 1
    /\ selected' = NoneSelected
    /\ UNCHANGED <<newer, others>>
    /\ \E out \in {repairLoop(clients, dirs, files, fault, selected.rows)} :
       /\ clients' = out.cl
       /\ dirs' = out.d
       /\ files' = out.f
       /\ res' = IF out.aborted
                 THEN result("repair", 500, 0, 0, <<>>, {}, out.cause)
                 ELSE result("repair", 200, out.fixedPaths, out.createdDirectories,
                             out.errors, {},
                             [rows |-> selected.rows, before |-> clients])

InterleavedNext ==
    \/ RepairSelect
    \/ \E fault \in {NoFault, [kind |-> "update", who |-> {ClientOrder[1]}]} :
          RepairLoop(fault)
    \/ \E id \in ClientIds, req \in DocumentRequests :
          UploadDocument(id, req.documentType, req.fault)

InterleavedSpec == Init /\ [][InterleavedNext]_vars

(***************************************************************************)
(* Properties.  A step of a handler is a step that changes nOps; res is    *)
(* what the handler of the last step returned.                             *)
(***************************************************************************)
Ran(op) == nOps' # nOps /\ res'.op = op

Range(seq) == {seq[i] : i \in 1..Len(seq)}

\* where a stored path is served from: the /documents middleware redirects a path
\* without the /uploads prefix to the same path below /uploads
resolve(p) == IF missingUploadsPrefix(p) THEN "/uploads" \o p ELSE p

\* the stored path names a staging (temp-) directory below uploads/documents
namesStaging(p) == p # NULL /\ scanTempMatch(p).ok

\* the stored path is canonical and names the directory of a client
canonicalPermanent(p) ==
    p # NULL /\ \E c \in ClientIds : startsWith(p, nsDir(c) \o "/") /\ dirname(p) = nsDir(c)

\* the operations the claims call repair operations
RepairOps == {"repair", "scan", "fixPaths", "fixClient", "fixTemp"}

\* C1: a repair run that directly follows a repair run (both completed, neither
\* reporting an error) reports fixedPaths = 0 and writes no reference and no file.
C1_SecondRepairDoesNothing ==
    [][(/\ res.op = "repair" /\ res.http = 200 /\ res.errors = <<>>
        /\ Ran("repair") /\ res'.http = 200 /\ res'.errors = <<>>)
       => (res'.fixedPaths = 0 /\ clients' = clients /\ files' = files)]_vars

\* C2: when create-with-documents completes without a fault and the handler's staging
\* directory held the file uploaded for a slot, the slot's stored path is
\* /uploads/documents/<client id>/<same file name> and the uploaded file is there.
C2_PromotionMovesAndRewrites ==
    (res.op = "create" /\ res.http = 201 /\ res.info.fault = "none")
    => \A s \in DOMAIN res.info.written :
          res.info.written[s] = res.info.recorded[s]
          => LET p == canonical(res.info.clientId, basename(res.info.written[s]))
             IN  /\ clients[res.info.clientId][s] = p
                 /\ p \in DOMAIN files
                 /\ files[p] = Uploaded

C2_Witness ==
    /\ res.op = "create" /\ res.http = 201 /\ res.info.fault = "none"
    /\ \E s \in DOMAIN res.info.written :
          /\ res.info.written[s] = res.info.recorded[s]
          /\ clients[res.info.clientId][s] =
                canonical(res.info.clientId, basename(res.info.written[s]))

\* C3: in create-with-documents the path recorded for every uploaded slot is the
\* path at which the upload middleware wrote that slot's file.
C3_RecordedPathIsWrittenPath ==
    res.op = "create"
    => \A s \in DOMAIN res.info.written : res.info.recorded[s] = res.info.written[s]

\* C4: when the scan fixes a temp path (status fixed) the staging file it copied is
\* still at its staging path with the same content, and every repair operation
\* (fix-temp-document, which copies a staging directory, among them) leaves every
\* file of every staging directory in place with its content.
C4_StagingFileKept ==
    [][/\ Ran("scan")
          => \A r \in res'.details :
                r.status = "fixed"
                => /\ r.originalPath \in DOMAIN files
                   /\ r.originalPath \in DOMAIN files'
                   /\ files'[r.originalPath] = files[r.originalPath]
       /\ (nOps' # nOps /\ res'.op \in RepairOps)
          => \A q \in DOMAIN files :
                namesStaging(q) => q \in DOMAIN files' /\ files'[q] = files[q]]_vars

C4_Witness ==
    /\ res.op = "scan" /\ res.http = 200
    /\ \E r \in res.details :
          r.status = "fixed" /\ namesStaging(r.originalPath) /\ r.originalPath \in DOMAIN files

\* C5: the scan changes no stored reference and no document file.
C5_ScanIsReadOnly ==
    [][Ran("scan") => (clients' = clients /\ files' = files)]_vars

\* C6: for every repair operation, a slot whose reference resolved to uploaded bytes
\* before the operation still has those bytes on disk afterwards (a file of the same
\* name with the uploaded content), and its reference does not resolve to a
\* placeholder.
C6_FixesNeverLoseData ==
    [][(nOps' # nOps /\ res'.op \in RepairOps)
       => \A c \in DOMAIN clients : \A s \in Slots :
             LET p == clients[c][s]
                 q == clients'[c][s]
             IN  (p # NULL /\ resolve(p) \in DOMAIN files /\ files[resolve(p)] = Uploaded)
                 => /\ \E r \in DOMAIN files' :
                          basename(r) = basename(p) /\ files'[r] = Uploaded
                    /\ ~(q # NULL /\ resolve(q) \in DOMAIN files'
                         /\ files'[resolve(q)] = Placeholder)]_vars

\* C7: a completed repair run turns every reference that names a staging directory
\* and whose staging file exists into /uploads/documents/<client id>/<same name>,
\* with the file present there, and counts it in fixedPaths.
C7_RepairFixesTempPath ==
    [][(Ran("repair") /\ res'.http = 200 /\ res'.errors = <<>>)
       => \A c \in DOMAIN clients : \A s \in Slots :
             LET p == clients[c][s]
             IN  (namesStaging(p) /\ p \in DOMAIN files)
                 => /\ clients'[c][s] = canonical(c, basename(p))
                    /\ canonical(c, basename(p)) \in DOMAIN files'
                    /\ res'.fixedPaths >= 1]_vars

\* C8: in a completed repair run without errors, fixedPaths is the number of slots
\* whose reference the run corrected; a synthesized placeholder adds nothing.
C8_PlaceholderNotCounted ==
    [][(Ran("repair") /\ res'.http = 200 /\ res'.errors = <<>>)
       => res'.fixedPaths =
             Cardinality({x \in (DOMAIN clients) \X Slots :
                             clients'[x[1]][x[2]] # clients[x[1]][x[2]]})]_vars

\* C9: a completed repair run leaves a file at every canonical permanent path whose
\* file was absent, and leaves that stored path unchanged.
C9_PlaceholderForMissingFile ==
    [][(Ran("repair") /\ res'.http = 200 /\ res'.errors = <<>>)
       => \A c \in DOMAIN clients : \A s \in Slots :
             LET p == clients[c][s]
             IN  (canonicalPermanent(p) /\ p \notin DOMAIN files)
                 => (p \in DOMAIN files' /\ clients'[c][s] = p)]_vars

\* the row with every path that misses the /uploads prefix corrected
correctedRow(row) ==
    [s \in Slots |-> IF row[s] # NULL /\ missingUploadsPrefix(row[s])
                     THEN "/uploads" \o row[s] ELSE row[s]]

\* the clients of the batch of a run: the rows its query returned
batch(op) ==
    IF op = "fixPaths" THEN DOMAIN clients \cap Range(getAll(clients, newer, others))
    ELSE DOMAIN clients

\* C10: in repair-all-documents and fix-document-paths a failed write-back never
\* aborts the batch (only the initial read or a directory creation does): the run
\* returns its result object, in which every client of the batch that needed a
\* correction either has its write-back failure listed in errors, its row untouched,
\* or has all its corrections applied, whatever happened to the clients before it.
C10_ContinueOnWriteBackFailure ==
    [][(nOps' # nOps /\ res'.op \in {"repair", "fixPaths"})
       => /\ res'.http = 500 => res'.info \in {"select", "mkdir"}
          /\ res'.http = 200
             => \A c \in batch(res'.op) :
                   (correctedRow(clients[c]) # clients[c])
                   => \/ dbError(c) \in Range(res'.errors) /\ clients'[c] = clients[c]
                      \/ dbError(c) \notin Range(res'.errors)
                         /\ clients'[c] = correctedRow(clients[c])]_vars

C10_Witness ==
    /\ res.op = "repair" /\ res.http = 200
    /\ dbError(ClientOrder[1]) \in Range(res.errors)
    /\ dbError(ClientOrder[2]) \notin Range(res.errors)
    /\ res.fixedPaths >= 2
    /\ ClientOrder[2] \in DOMAIN clients
    /\ clients[ClientOrder[2]]["nic_proof"] = canonical(ClientOrder[2], fileName("nic_proof", "1"))
    /\ missingUploadsPrefix(clients[ClientOrder[1]]["dob_proof"])

\* C11: once the rows have been read, a scan or repair run always answers 200 with
\* its result object: only the failure of the initial read answers 500.
C11_NoPerItemErrorAborts ==
    [][(nOps' # nOps /\ res'.op \in {"scan", "repair"} /\ res'.http = 500)
       => res'.info = "select"]_vars

interruptedSlot(c, s) ==
    /\ namesStaging(clients[c][s])
    /\ ~(clients[c][s] \in DOMAIN files /\ files[clients[c][s]] = Uploaded)
    /\ canonical(c, basename(clients[c][s])) \in DOMAIN files
    /\ files[canonical(c, basename(clients[c][s]))] = Uploaded

\* C13: for a slot left by an interrupted promotion, a completed scan reports a
\* status other than ok, and the slot stays healable: no scan or repair run destroys
\* the relocated uploaded file, the only copy the reference can be healed to.
C13_InterruptedPromotionHeals ==
    [][\A c \in DOMAIN clients : \A s \in Slots :
          interruptedSlot(c, s)
          => /\ (Ran("scan") /\ res'.http = 200 /\ c \in Range(getAll(clients, newer, others)))
                => \E r \in res'.details :
                      r.clientId = c /\ r.field = s /\ r.status # "ok"
             /\ (nOps' # nOps /\ res'.op \in {"scan", "repair"})
                => /\ canonical(c, basename(clients[c][s])) \in DOMAIN files'
                   /\ files'[canonical(c, basename(clients[c][s]))] = Uploaded]_vars

\* C14: when create-with-documents relocates the staging directory (it exists after
\* the upload and the rename does not fail), the client's directory afterwards holds
\* the files of the staging directory, and it holds exactly those when the triggered
\* repair pass did not run: nothing of an earlier directory of that name is kept.
C14_PromotionNeverMerges ==
    [][(/\ Ran("create") /\ res'.http = 201 /\ res'.info.fault \in {"none", "update"}
        /\ \/ existsSync(dirs, files, nsDir(res'.info.tempClientId))
           \/ \E s \in DOMAIN res'.info.written :
                 dirname(res'.info.written[s]) = nsDir(res'.info.tempClientId))
       => LET staged == readdirSync(files, nsDir(res'.info.tempClientId))
                        \cup {basename(res'.info.written[s]) :
                                s \in {x \in DOMAIN res'.info.written :
                                         dirname(res'.info.written[x])
                                            = nsDir(res'.info.tempClientId)}}
              after == readdirSync(files', nsDir(res'.info.clientId))
          IN  /\ staged \subseteq after
              /\ ~res'.info.repairRuns => after = staged]_vars

C14_Witness ==
    /\ res.op = "create" /\ res.http = 201 /\ res.info.fault = "none"
    /\ res.info.clientDirExisted
    /\ \E s \in DOMAIN res.info.written :
          /\ res.info.written[s] = res.info.recorded[s]
          /\ readdirSync(files, nsDir(res.info.clientId)) = {basename(res.info.written[s])}

\* C19: in a completed scan, the entry of a slot whose reference names a staging
\* directory has status temp-path when the staging file exists and
\* missing-temp-file when it does not.
C19_ScanStagingStatus ==
    [][(Ran("scan") /\ res'.http = 200)
       => \A r \in res'.details :
             namesStaging(r.originalPath)
             => r.status = IF r.originalPath \in DOMAIN files
                           THEN "temp-path" ELSE "missing-temp-file"]_vars

\* C20: in a completed scan, the entry of a slot whose reference starts with
\* /documents/ (the /uploads segment missing) and names a client's directory has
\* status wrong-prefix.
C20_ScanWrongPrefix ==
    [][(Ran("scan") /\ res'.http = 200)
       => \A r \in res'.details :
             (/\ missingUploadsPrefix(r.originalPath)
              /\ \E c \in ClientIds : dirname(resolve(r.originalPath)) = nsDir(c))
             => r.status = "wrong-prefix"]_vars

\* the namespace directories below uploads/documents that are not staging directories
permanentDirs == {d \in dirs : dirname(d) = uploadsRoot /\ ~startsWith(basename(d), "temp-")}

\* C15: in every reachable state every permanent (non-staging) namespace directory
\* below the documents root is named by the id of a client record that exists.
C15_PermanentDirsHaveClients ==
    \A d \in permanentDirs : basename(d) \in DOMAIN clients

\* the operations that take uploaded files and write their references
UploadOps == {"create", "update", "upload"}

\* /uploads/documents/<namespaceId>/<filename>, both segments non-empty
threeSegments(p) ==
    /\ dirname(dirname(p)) = uploadsRoot
    /\ basename(dirname(p)) # ""
    /\ basename(p) # ""

\* C17: every reference an upload operation (create-with-documents,
\* update-with-documents, single-document upload) wrote to the record store has the
\* form /uploads/documents/<namespaceId>/<filename>, namespace id and file name
\* non-empty.
C17_UploadsWriteCanonicalReferences ==
    [][(nOps' # nOps /\ res'.op \in UploadOps /\ res'.http \in {200, 201})
       => \A s \in DOMAIN res'.info.recorded :
             /\ clients'[IF res'.op = "create" THEN res'.info.clientId ELSE res'.info.id][s]
                   # NULL
             /\ threeSegments(clients'[IF res'.op = "create" THEN res'.info.clientId
                                       ELSE res'.info.id][s])]_vars

\* C16: staging ids and client ids are disjoint: no client record has the id of a
\* staging directory or an id of the staging shape (temp-...), whether Client.create
\* generated the id or the create request supplied it.
C16_StagingAndClientIdsDisjoint ==
    \A c \in DOMAIN clients : c \notin TempIds /\ ~startsWith(c, "temp-")

\* C18: a completed scan has an entry in details for every non-null document slot
\* of every client record, and its totalClients is the number of rows of the table.
C18_ScanClassifiesEveryReference ==
    [][(Ran("scan") /\ res'.http = 200)
       => /\ \A c \in DOMAIN clients : \A s \in Slots :
                clients[c][s] # NULL
                => \E r \in res'.details : r.clientId = c /\ r.field = s
          /\ res'.info.totalClients = Cardinality(DOMAIN clients) + others]_vars

\* C21: in a completed scan, the entry of a slot whose reference is a canonical path
\* in a client's directory has status ok when the referenced file exists and
\* missing-file when it does not, and missingFiles counts the entries reported
\* missing and no other.
C21_ScanCanonicalStatus ==
    [][(Ran("scan") /\ res'.http = 200)
       => /\ \A r \in res'.details :
                canonicalPermanent(r.originalPath)
                => r.status = IF r.originalPath \in DOMAIN files THEN "ok" ELSE "missing-file"
          /\ res'.info.missingFiles
                = Cardinality({r \in res'.details :
                                 r.status \in {"missing-file", "missing-temp-file"}})]_vars

\* the stored path misses the /uploads segment and names a staging directory:
\* /documents/<stagingId>/<filename>
legacyStaging(p) ==
    p # NULL /\ missingUploadsPrefix(p) /\ startsWith(basename(dirname(p)), "temp-")

\* C22: in a completed scan, the entry of a slot whose reference is
\* /documents/<stagingId>/<filename> while the file exists at
\* /uploads/documents/<stagingId>/<filename> has status temp-path.
C22_ScanLegacyStagingIsTempPath ==
    [][(Ran("scan") /\ res'.http = 200)
       => \A c \in DOMAIN clients \cap Range(getAll(clients, newer, others)) :
             \A s \in Slots :
                (legacyStaging(clients[c][s]) /\ resolve(clients[c][s]) \in DOMAIN files)
                => \E r \in res'.details :
                      /\ r.clientId = c /\ r.field = s
                      /\ r.originalPath = clients[c][s]
                      /\ r.status = "temp-path"]_vars

C22_Witness ==
    /\ res.op = "scan" /\ res.http = 200
    /\ \E r \in res.details :
          /\ r.status = "temp-path"
          /\ legacyStaging(r.originalPath)
          /\ resolve(r.originalPath) \in DOMAIN files
          /\ clients[r.clientId][r.field] = r.originalPath

\* C23: a completed repair-all-documents or fix-document-paths run rewrites every
\* reference that misses the /uploads root to the same path with /uploads
\* prepended (for each client of the batch whose write-back did not fail) and
\* leaves every other reference as it was; no file is removed or changed, and a
\* file the run creates is at a path that a reference with the /uploads root
\* names, never one created for a reference that misses it.
C23_WrongPrefixRepairRewritesOnly ==
    [][(nOps' # nOps /\ res'.op \in {"repair", "fixPaths"} /\ res'.http = 200)
       => /\ \A c \in DOMAIN clients :
                clients'[c] = IF c \in batch(res'.op) /\ dbError(c) \notin Range(res'.errors)
                              THEN correctedRow(clients[c]) ELSE clients[c]
          /\ \A q \in DOMAIN files : q \in DOMAIN files' /\ files'[q] = files[q]
          /\ \A q \in DOMAIN files' \ DOMAIN files :
                \E c \in DOMAIN clients : \E s \in Slots :
                   clients[c][s] = q /\ ~missingUploadsPrefix(clients[c][s])]_vars

C23_Witness ==
    /\ res.op = "repair" /\ res.http = 200 /\ res.errors = <<>>
    /\ res.fixedPaths >= 1
    /\ DOMAIN files # {}
    /\ \A q \in DOMAIN files : files[q] = Uploaded
    /\ \E c \in DOMAIN clients : \E s \in Slots :
          canonicalPermanent(clients[c][s]) /\ clients[c][s] \in DOMAIN files

\* the shape of a stored path: staging when its namespace segment starts with
\* temp-, canonical when it is /uploads/documents/<namespace>/<filename>, missing
\* root when it is /documents/<namespace>/<filename>, malformed otherwise
shape(p) ==
    IF dirname(dirname(p)) = uploadsRoot /\ basename(p) # ""
    THEN IF startsWith(basename(dirname(p)), "temp-") THEN "staging" ELSE "canonical"
    ELSE IF dirname(dirname(p)) = "/documents" /\ basename(p) # ""
    THEN IF startsWith(basename(dirname(p)), "temp-") THEN "staging" ELSE "missing-root"
    ELSE "malformed"

\* C24: a completed scan gives every stored path one status, the status of a
\* malformed path is error, and in a run that met no failure two paths of the same
\* shape whose files both exist or both do not exist get the same status.
C24_ClassificationTotalByShape ==
    [][(Ran("scan") /\ res'.http = 200)
       => /\ \A c \in DOMAIN clients \cap Range(getAll(clients, newer, others)) :
                \A s \in Slots :
                   clients[c][s] # NULL
                   => Cardinality({r \in res'.details : r.clientId = c /\ r.field = s}) = 1
          /\ \A r \in res'.details :
                shape(r.originalPath) = "malformed" => r.status = "error"
          /\ res'.errors = <<>>
             => \A r1, r2 \in res'.details :
                   (/\ shape(r1.originalPath) = shape(r2.originalPath)
                    /\ (r1.originalPath \in DOMAIN files) = (r2.originalPath \in DOMAIN files))
                   => r1.status = r2.status]_vars

\* C25: after a successful single-document upload to a slot that held a reference,
\* the slot's reference is the path of the newly written file, that file exists,
\* the file the old reference was served from no longer exists, and every other
\* slot of every client is unchanged.
C25_ReuploadReplacesWholesale ==
    [][(/\ Ran("upload") /\ res'.http = 200
        /\ clients[res'.info.id][res'.info.field] # NULL)
       => /\ clients'[res'.info.id][res'.info.field] = res'.info.written[res'.info.field]
          /\ res'.info.written[res'.info.field] \in DOMAIN files'
          /\ files'[res'.info.written[res'.info.field]] = Uploaded
          /\ resolve(clients[res'.info.id][res'.info.field]) \notin DOMAIN files'
          /\ \A c \in DOMAIN clients : \A s \in Slots :
                (c # res'.info.id \/ s # res'.info.field)
                => clients'[c][s] = clients[c][s]]_vars

\* C27: a completed repair run names in its result every placeholder it wrote, and
\* a completed scan never reports ok or fixed for a slot whose reference names a
\* placeholder.
C27_PlaceholderStaysFlagged ==
    [][/\ (Ran("repair") /\ res'.http = 200)
          => \A q \in DOMAIN files' \ DOMAIN files :
                \E r \in res'.details : r.originalPath = q \/ r.newPath = q
       /\ (Ran("scan") /\ res'.http = 200)
          => \A r \in res'.details :
                (r.originalPath \in DOMAIN files /\ files[r.originalPath] = Placeholder)
                => r.status \notin {"ok", "fixed"}]_vars

\* C29: the fixedPaths counter answered by repair-all-documents and by
\* fix-document-paths equals the number of slots whose stored reference the run
\* changed.
C29_FixedPathsCountsChangedReferences ==
    [][((Ran("repair") \/ Ran("fixPaths")) /\ res'.http = 200)
          => res'.fixedPaths =
                Cardinality({<<c, s>> \in (DOMAIN clients) \X Slots :
                                clients'[c][s] # clients[c][s]})]_vars

\* C30: when the reference write of a single-document upload or of an
\* update-with-documents fails, the stored references are unchanged and every one
\* that resolved to an existing file still does.
C30_FailedWriteKeepsOldReference ==
    [][((Ran("upload") \/ Ran("update")) /\ res'.http = 500)
          => /\ clients' = clients
             /\ \A c \in DOMAIN clients : \A s \in Slots :
                   (clients[c][s] # NULL /\ resolve(clients[c][s]) \in DOMAIN files)
                   => resolve(clients[c][s]) \in DOMAIN files']_vars

\* ---------------------------------------------------------------------------
\* POST /api/clients/search and Client.search. The rows carry the two columns the
\* search reads here; the handler writes nothing, so only res and nOps change.

Digits == <<"0", "1", "2", "3", "4", "5", "6", "7", "8", "9">>

RECURSIVE decimal(_)
decimal(n) == IF n < 10 THEN Digits[n + 1] ELSE decimal(n \div 10) \o Digits[(n % 10) + 1]

SearchNames == {"ann", "bob"}
SearchReps == {7, 8, 17}
SearchUsers == {[role |-> "sales", userId |-> 7], [role |-> "sales", userId |-> 8],
                [role |-> "admin", userId |-> 1]}
SearchBodies == {<< >>, [client_name |-> "an"], [client_name |-> "bob"],
                 [sales_rep_id |-> 8]}

columnText(key, value) == IF key = "sales_rep_id" THEN decimal(value) ELSE value

\* LIKE with the pattern '%' + value + '%'
like(key, column, value) == includes(columnText(key, column), columnText(key, value))

\* the ids of the rows Client.search returns for the criteria
search(cl, criteria) ==
    {c \in DOMAIN cl : \E key \in DOMAIN criteria : like(key, cl[c][key], criteria[key])}

searchCriteria(user, body) ==
    IF user.role = "sales"
    THEN [key \in DOMAIN body \cup {"sales_rep_id"} |->
             IF key = "sales_rep_id" THEN user.userId ELSE body[key]]
    ELSE body

\* a WHERE clause without a condition is a syntax error: the query throws
searchHandler(cl, user, body) ==
    IF DOMAIN searchCriteria(user, body) = {}
    THEN result("search", 500, 0, 0, <<>>, {}, [user |-> user, body |-> body, data |-> {}])
    ELSE result("search", 200, 0, 0, <<>>, {},
                [user |-> user, body |-> body,
                 data |-> search(cl, searchCriteria(user, body))])

Search(user, body) ==
    /\ nOps < MaxOps
    /\ res' = searchHandler(clients, user, body)
    /\ nOps' = nOps + 1
    /\ UNCHANGED <<clients, newer, others, dirs, files, selected>>

SearchInit ==
    /\ clients \in [{ClientOrder[1], ClientOrder[2]} ->
                       [client_name : SearchNames, sales_rep_id : SearchReps]]
    /\ files = << >>
    /\ dirs = {}
    /\ newer = <<>>
    /\ others = 0
    /\ res = result("start", 0, 0, 0, <<>>, {}, "none")
    /\ nOps = 0
    /\ selected = NoneSelected

SearchNext == \E user \in SearchUsers, body \in SearchBodies : Search(user, body)

SearchSpec == SearchInit /\ [][SearchNext]_vars

\* C26: every client a search answers to a user of role sales has that user's id
\* as its sales_rep_id, whatever criteria the request carries.
C26_SalesSearchReturnsOwnClients ==
    (res.op = "search" /\ res.http = 200 /\ res.info.user.role = "sales")
    => \A c \in res.info.data : clients[c].sales_rep_id = res.info.user.userId

\* C28: a repair loop that completes without error writes, for every slot whose
\* selected row misses the /uploads root, the path derived from that selected row,
\* whatever a re-upload stored in the slot after the SELECT.
C28_RepairWritesFromSelectedRows ==
    [][(Ran("repair") /\ res'.http = 200 /\ res'.errors = <<>>)
          => \A c \in DOMAIN selected.rows \cap DOMAIN clients : \A s \in Slots :
                (/\ selected.rows[c][s] # NULL
                 /\ ~repairTempMatch(selected.rows[c][s]).ok
                 /\ missingUploadsPrefix(selected.rows[c][s]))
                => clients'[c][s] = "/uploads" \o selected.rows[c][s]]_vars

\* a re-upload landed between the SELECT and the loop, and the loop put the path
\* derived from the old reference over the new one: the uploaded file is on disk
\* and no slot names it
C28_Witness ==
    /\ res.op = "repair" /\ res.http = 200
    /\ \E c \in DOMAIN clients : \E s \in Slots :
          /\ res.info.before[c][s] # res.info.rows[c][s]
          /\ missingUploadsPrefix(res.info.rows[c][s])
          /\ clients[c][s] = "/uploads" \o res.info.rows[c][s]
          /\ res.info.before[c][s] \in DOMAIN files
          /\ files[res.info.before[c][s]] = Uploaded
          /\ \A c2 \in DOMAIN clients : \A s2 \in Slots :
                clients[c2][s2] # res.info.before[c][s]


====
